---- MODULE Spec2Model ----
(***************************************************************************)
(* Schaap-To-SHETRAN-1Layer.py: one linear pipeline that reads five        *)
(* Mualem-van Genuchten parameter grids (.asc), numbers the distinct       *)
(* thetaSat values ("supercategories"), and writes a category map, a soil  *)
(* properties table and a soil details table.                              *)
(*                                                                         *)
(* Floats of the grids are modelled by integers.  The one arithmetic step  *)
(* of the script, x * 0.01, is kept exact as a fraction [num, den].        *)
(* pandas index labels are 0-based in the script; sequences here are       *)
(* 1-based, so the row with index label k is element k + 1.                *)
(***************************************************************************)
EXTENDS Integers, Sequences, FiniteSets, TLC

\* ---------------------------------------------------------------- bounds
\* Largest number of cells (nrows * ncols) of an input grid.
MaxCells == 4

\* --------------------------------------------------- program constants
NoData == -999
CmPerM == 100
NumParams == 5
SoilLayer == 1
Depth == 2

\* ------------------------------------------------------------- inputs
\* Sample parameter tuples <<thetaSat, thetaRes, Ksat, alpha, n>> a grid cell
\* may carry (stand-ins for the floats of the .asc files).
SoilSamples ==
    { <<NoData, NoData, NoData, NoData, NoData>>,
      <<40, 5, 100, 1, 2>>,
      <<50, 5, 100, 1, 2>>,
      <<40, 7, 250, 3, 4>>,
      <<50, 7, 250, 3, 4>>,
      <<60, 9, NoData, 6, 8>> }

\* The one-cell grids tried on a file system that lists in arbitrary order.
UnsortedSamples ==
    { <<NoData, NoData, NoData, NoData, NoData>>,
      <<40, 5, 100, 1, 2>> }

\* Grid shapes with at most MaxCells cells.
Shapes == { rc \in (1..MaxCells) \X (1..MaxCells) : rc[1] * rc[2] <= MaxCells }

\* The text of an ASCII grid file: header lines, then the data rows.
\* A header line is its keyword and the numbers the regular expression finds.
AscFile(r, c, data) ==
    [ Lines |-> << [text |-> "ncols",        nums |-> <<c>>],
                   [text |-> "nrows",        nums |-> <<r>>],
                   [text |-> "NODATA_value", nums |-> <<NoData>>] >>,
      data  |-> data ]

\* The grid of parameter p (1 = thetaSat .. 5 = n) of a grid of soil tuples.
Plane(soil, p) == [i \in DOMAIN soil |-> [j \in DOMAIN soil[i] |-> soil[i][j][p]]]

\* ---------------------------------------------------------- sequences
Range(s) == { s[i] : i \in DOMAIN s }

Min(S) == CHOOSE x \in S : \A y \in S : x <= y

\* All orderings of a finite set.
Perms(S) ==
    { s \in [1..Cardinality(S) -> S] : \A i, j \in DOMAIN s : s[i] = s[j] => i = j }

RECURSIVE SortedSeq(_)
SortedSeq(S) == IF S = {} THEN <<>> ELSE <<Min(S)>> \o SortedSeq(S \ {Min(S)})

\* numpy .values.flatten(): the rows of a 2D array one after another.
RECURSIVE Flatten(_)
Flatten(df) == IF df = <<>> THEN <<>> ELSE Head(df) \o Flatten(Tail(df))

\* numpy .reshape(Nrows, Ncols, order='F').
ReshapeColMajor(flat, r, c) ==
    [i \in 1..r |-> [j \in 1..c |-> flat[(j - 1) * r + i]]]

\* numpy .reshape(Nrows, Ncols): C order.
Reshape(flat, r, c) ==
    [i \in 1..r |-> [j \in 1..c |-> flat[(i - 1) * c + j]]]

\* pandas Series.unique(): distinct values in order of first appearance.
RECURSIVE UniqueAcc(_, _)
UniqueAcc(s, acc) ==
    IF s = <<>> THEN acc
    ELSE IF Head(s) \in Range(acc) THEN UniqueAcc(Tail(s), acc)
         ELSE UniqueAcc(Tail(s), Append(acc, Head(s)))

Unique(s) == UniqueAcc(s, <<>>)

\* ------------------------------------------------------- lines 65-85
\* glob.glob(): the matching names as the directory lists them.  Python
\* documents the order as arbitrary unless the file system sorts its entries.
Listings(names, fsSorted) == IF fsSorted THEN {SortedSeq(names)} ELSE Perms(names)

\* Python subscript PathList[i], i >= 0 counted from 0: IndexError past the end.
SubscriptWrap(list, i) ==
    IF Len(list) = 0 THEN [ok |-> FALSE, value |-> 0]
    ELSE [ok |-> TRUE, value |-> list[(i % Len(list)) + 1]]

Subscript(list, i) ==
    IF i < Len(list) THEN [ok |-> TRUE, value |-> list[i + 1]]
    ELSE [ok |-> FALSE, value |-> 0]

\* Lines 79-88: the header scan; a later matching line overwrites an earlier one.
RECURSIVE ScanHeader(_, _)
ScanHeader(lines, acc) ==
    IF lines = <<>> THEN acc
    ELSE LET line == Head(lines) IN
         IF line.text = "ncols"
            THEN ScanHeader(Tail(lines), [acc EXCEPT !.Ncols = line.nums[1]])
         ELSE IF line.text = "nrows"
            THEN ScanHeader(Tail(lines), [acc EXCEPT !.Nrows = line.nums[1]])
         ELSE ScanHeader(Tail(lines), acc)

\* ------------------------------------------------------ lines 94-103
SubCatsGrid(nrows, ncols) ==
    [r \in 1..nrows |-> [c \in 1..ncols |-> 1 + (ncols * (r - 1)) + (c - 1)]]

\* ----------------------------------------------------- lines 109-122
\* CustomFunctionsToSHETRAN.ASCtoDfParam: the data section of the file as an
\* nrows x ncols array of floats.
ASCtoDfParam(file, nrows, ncols) ==
    [r \in 1..nrows |-> [c \in 1..ncols |-> file.data[r][c]]]

\* Exact fractions for the result of x * 0.01.
Frac(x) == [num |-> x, den |-> 1]
FracEq(a, b) == a.num * b.den = b.num * a.den

\* Line 120: lambda x: x if x == -999 else x * 0.01
KsatToMetres(x) == IF x = NoData THEN Frac(x) ELSE [num |-> x, den |-> CmPerM]

\* ----------------------------------------------------- lines 128-143
\* Lines 128-130: {unique value: its index label in VG_ThetaS_unique}.
UniqueDictFromOne(series) ==
    LET u == Unique(series)
    IN  [v \in Range(u) |-> CHOOSE k \in 1..Len(u) : u[k] = v]

UniqueDict(series) ==
    LET u == Unique(series)
    IN  [v \in Range(u) |-> (CHOOSE k \in 1..Len(u) : u[k] = v) - 1]

\* Lines 132-139: each cell's value replaced by its entry of the dict.
LookupByPosition(series, dict) == [i \in DOMAIN series |-> i - 1]

Lookup(series, dict) == [i \in DOMAIN series |-> dict[series[i]]]

\* ----------------------------------------------------- lines 156-202
\* A DataFrame built column by column: a sequence of [name, values].
NRowsOf(df) == IF df = <<>> THEN 0 ELSE Len(df[1].values)

Broadcast(v, k) == [i \in 1..k |-> v]

\* pandas refuses an array whose length differs from the frame's index.
LengthUnchecked(df, values) == TRUE

LengthMatches(df, values) == df = <<>> \/ Len(values) = NRowsOf(df)

\* df[name] = array / Series (cols entry with scalar = FALSE), or
\* df[name] = scalar (broadcast over the index).  Stops at the first ValueError.
RECURSIVE AssignColumns(_, _)
AssignColumns(df, cols) ==
    IF cols = <<>> THEN [ok |-> TRUE, df |-> df]
    ELSE LET c == Head(cols)
             values == IF c.scalar THEN Broadcast(c.v, NRowsOf(df)) ELSE c.v
         IN  IF LengthMatches(df, values)
                THEN AssignColumns(Append(df, [name |-> c.name, values |-> values]),
                                   Tail(cols))
                ELSE [ok |-> FALSE, df |-> df]

Array(name, v) == [name |-> name, scalar |-> FALSE, v |-> v]
Scalar(name, v) == [name |-> name, scalar |-> TRUE, v |-> v]

\* Line 156: the IDs of the table rows.
NumberFromOne(superCats) == [k \in 1..Len(Unique(superCats)) |-> k]

TableSuperCats(superCats) == Unique(superCats)

\* Lines 166-175.
SoilPropertiesColumns(superCatsU, thetaS, thetaR, ksat, alpha, n) ==
    << Array("SoilProperty", Broadcast("<SoilProperty>", Len(superCatsU))),
       Array("SuperCats", superCatsU),
       Array("SoilType", superCatsU),
       Array("VG_ThetaS", thetaS),
       Array("VG_ThetaR", thetaR),
       Array("VG_Ksat", ksat),
       Array("VG_alpha", alpha),
       Array("VG_n", n),
       Scalar("</SoilProperty>", "</SoilProperty>") >>

\* Lines 188-194.
SuperDetailsColumns(superCatsU) ==
    << Array("<SoilDetails>", Broadcast("<SoilDetail>", Len(superCatsU))),
       Array("SuperCats", superCatsU),
       Scalar("SoilLayer", SoilLayer),
       Array("SoilType", superCatsU),
       Scalar("Depth[m]", Depth),
       Array("</SoilDetails>", Broadcast("</SoilDetail>", Len(superCatsU))) >>

\* DataFrame.to_csv(index = False): an optional header row, then one line per row.
NotWritten == [written |-> FALSE, sep |-> "", header |-> <<>>, rows |-> <<>>]

\* Lines 146-150: a frame made from a 2D array, no header, sep = ' '.
ArrayToCsv(array) ==
    [written |-> TRUE, sep |-> " ", header |-> <<>>, rows |-> array]

\* Lines 178-182 and 198-202: header = True, sep = ','.
TableToCsv(df) ==
    [written |-> TRUE, sep |-> ",",
     header |-> [j \in 1..Len(df) |-> df[j].name],
     rows |-> [k \in 1..NRowsOf(df) |-> [j \in 1..Len(df) |-> df[j].values[k]]]]

\* -------------------------------------------------------------- state
VARIABLES
    fsSorted,       \* environment: the file system lists a directory in name order
    dir,            \* names in DirectoryIn matching '*' + ResolutionKM + '*.asc';
                    \* name p is the grid of parameter p when the names are sorted
    asc,            \* the content of each matching file
    run,            \* 1: the first run; 2: a second run on the same inputs
    first,          \* what the first run ended with
    pc,             \* the next cell of the script, "done" or "failed"
    error,          \* the uncaught exception that ended the run, or "none"
    failedAt,       \* the cell that raised it
    PathList, Nrows, Ncols, DfSubCats,
    DfVG_ThetaS, DfVG_ThetaR, DfVG_Ksat, DfVG_Alpha, DfVG_N,
    SubCats, VG_ThetaS, VG_ThetaR, VG_Ksat, VG_Alpha, VG_N,
    VG_ThetaS_unique_dict, SuperCats, DfSuperCats,
    DfSoilSuperProperties, DfSuperDetails,
    outDir          \* the three files of DirectoryOut

env == <<fsSorted, dir, asc>>
runs == <<run, first>>
ctl == <<pc, error, failedAt>>
header == <<Nrows, Ncols>>
frames == <<DfVG_ThetaS, DfVG_ThetaR, DfVG_Ksat, DfVG_Alpha, DfVG_N>>
series == <<SubCats, VG_ThetaS, VG_ThetaR, VG_Ksat, VG_Alpha, VG_N>>
reduced == <<VG_ThetaS_unique_dict, SuperCats, DfSuperCats>>
tables == <<DfSoilSuperProperties, DfSuperDetails>>
vars == <<env, runs, ctl, PathList, header, DfSubCats, frames, series, reduced,
          tables, outDir>>

EmptyDir ==
    [SuperCatsOut |-> NotWritten, SoilPropertiesOut |-> NotWritten,
     SoilDetailsOut |-> NotWritten]

\* The interpreter's state before line 65, with a fresh output directory.
Fresh ==
    /\ pc = "glob" /\ error = "none" /\ failedAt = "none"
    /\ PathList = <<>> /\ Nrows = 0 /\ Ncols = 0 /\ DfSubCats = <<>>
    /\ DfVG_ThetaS = <<>> /\ DfVG_ThetaR = <<>> /\ DfVG_Ksat = <<>>
    /\ DfVG_Alpha = <<>> /\ DfVG_N = <<>>
    /\ SubCats = <<>> /\ VG_ThetaS = <<>> /\ VG_ThetaR = <<>> /\ VG_Ksat = <<>>
    /\ VG_Alpha = <<>> /\ VG_N = <<>>
    /\ VG_ThetaS_unique_dict = <<>> /\ SuperCats = <<>> /\ DfSuperCats = <<>>
    /\ DfSoilSuperProperties = <<>> /\ DfSuperDetails = <<>>
    /\ outDir = EmptyDir

NoFirstRun == [pc |-> "none", outDir |-> EmptyDir]

\* Five equally-sized grids over the sample soils; the first k of them are
\* present in the directory, which the file system lists in name order.
InitSorted ==
    /\ fsSorted = TRUE
    /\ \E rc \in Shapes, k \in 0..NumParams :
         \E soil \in [1..rc[1] -> [1..rc[2] -> SoilSamples]] :
            /\ dir = 1..k
            /\ asc = [p \in 1..k |-> AscFile(rc[1], rc[2], Plane(soil, p))]
    /\ run = 1 /\ first = NoFirstRun
    /\ Fresh

\* Any subset of five one-cell grids, in a directory listed in arbitrary order.
InitUnsorted ==
    /\ fsSorted = FALSE
    /\ \E names \in SUBSET (1..NumParams), t \in UnsortedSamples :
            /\ dir = names
            /\ asc = [p \in names |-> AscFile(1, 1, << <<t[p]>> >>)]
    /\ run = 1 /\ first = NoFirstRun
    /\ Fresh

Init == InitSorted \/ InitUnsorted

Fail(exc) ==
    /\ error' = exc
    /\ failedAt' = pc
    /\ pc' = "failed"

Goto(next) ==
    /\ pc' = next
    /\ UNCHANGED <<error, failedAt>>

\* Line 65.
Glob ==
    /\ pc = "glob"
    /\ PathList' \in Listings(dir, fsSorted)
    /\ Goto("open")
    /\ UNCHANGED <<env, runs, header, DfSubCats, frames, series, reduced, tables,
                   outDir>>

\* Lines 70-88.
ReadHeader ==
    /\ pc = "open"
    /\ Subscript(PathList, 0).ok
    /\ LET h == ScanHeader(asc[Subscript(PathList, 0).value].Lines,
                           [Ncols |-> 0, Nrows |-> 0])
       IN  /\ Ncols' = h.Ncols
           /\ Nrows' = h.Nrows
    /\ Goto("subcats")
    /\ UNCHANGED <<env, runs, PathList, DfSubCats, frames, series, reduced, tables,
                   outDir>>

\* Line 70 on an empty PathList.
ReadHeaderIndexError ==
    /\ pc = "open"
    /\ ~Subscript(PathList, 0).ok
    /\ Fail("IndexError")
    /\ UNCHANGED <<env, runs, PathList, header, DfSubCats, frames, series, reduced,
                   tables, outDir>>

\* Lines 94-103.
BuildSubCats ==
    /\ pc = "subcats"
    /\ DfSubCats' = SubCatsGrid(Nrows, Ncols)
    /\ Goto("read")
    /\ UNCHANGED <<env, runs, PathList, header, frames, series, reduced, tables,
                   outDir>>

\* The frame line 109 + i assigns: read when PathList[i] exists, else left as is.
Loaded(i, old) ==
    IF \A j \in 0..i : Subscript(PathList, j).ok
       THEN ASCtoDfParam(asc[Subscript(PathList, i).value], Nrows, Ncols)
       ELSE old

LoadFrames ==
    /\ DfVG_ThetaS' = Loaded(0, DfVG_ThetaS)
    /\ DfVG_ThetaR' = Loaded(1, DfVG_ThetaR)
    /\ DfVG_Ksat' = Loaded(2, DfVG_Ksat)
    /\ DfVG_Alpha' = Loaded(3, DfVG_Alpha)
    /\ DfVG_N' = Loaded(4, DfVG_N)

\* Lines 109-113.
ReadParams ==
    /\ pc = "read"
    /\ \A i \in 0..(NumParams - 1) : Subscript(PathList, i).ok
    /\ LoadFrames
    /\ Goto("flatten")
    /\ UNCHANGED <<env, runs, PathList, header, DfSubCats, series, reduced, tables,
                   outDir>>

\* Lines 109-113 with fewer than five paths: the first missing index raises.
ReadParamsIndexError ==
    /\ pc = "read"
    /\ \E i \in 0..(NumParams - 1) : ~Subscript(PathList, i).ok
    /\ LoadFrames
    /\ Fail("IndexError")
    /\ UNCHANGED <<env, runs, PathList, header, DfSubCats, series, reduced, tables,
                   outDir>>

\* Lines 116-122.
FlattenAll ==
    /\ pc = "flatten"
    /\ SubCats' = Flatten(DfSubCats)
    /\ VG_ThetaS' = Flatten(DfVG_ThetaS)
    /\ VG_ThetaR' = Flatten(DfVG_ThetaR)
    /\ VG_Ksat' = [i \in DOMAIN Flatten(DfVG_Ksat) |->
                      KsatToMetres(Flatten(DfVG_Ksat)[i])]
    /\ VG_Alpha' = Flatten(DfVG_Alpha)
    /\ VG_N' = Flatten(DfVG_N)
    /\ Goto("reduce")
    /\ UNCHANGED <<env, runs, PathList, header, DfSubCats, frames, reduced, tables,
                   outDir>>

\* Lines 128-143.
Reduce ==
    /\ pc = "reduce"
    /\ VG_ThetaS_unique_dict' = UniqueDict(VG_ThetaS)
    /\ SuperCats' = Lookup(VG_ThetaS, UniqueDict(VG_ThetaS))
    /\ DfSuperCats' = Reshape(Lookup(VG_ThetaS, UniqueDict(VG_ThetaS)), Nrows, Ncols)
    /\ Goto("writeMap")
    /\ UNCHANGED <<env, runs, PathList, header, DfSubCats, frames, series, tables,
                   outDir>>

\* Lines 146-150.
WriteSuperCats ==
    /\ pc = "writeMap"
    /\ outDir' = [outDir EXCEPT !.SuperCatsOut = ArrayToCsv(DfSuperCats)]
    /\ Goto("buildProps")
    /\ UNCHANGED <<env, runs, PathList, header, DfSubCats, frames, series, reduced,
                   tables>>

\* Lines 158-162.
VG_SuperThetaS == Unique(Flatten(DfVG_ThetaS))
VG_SuperThetaR == Unique(Flatten(DfVG_ThetaR))
VG_SuperKsat == Unique(Flatten(DfVG_Ksat))
VG_SuperAlpha == Unique(Flatten(DfVG_Alpha))
VG_SuperN == Unique(Flatten(DfVG_N))

\* Lines 156-175 as far as the first column pandas refuses.
SoilPropertiesBuilt ==
    AssignColumns(<<>>,
                  SoilPropertiesColumns(TableSuperCats(SuperCats), VG_SuperThetaS,
                                        VG_SuperThetaR, VG_SuperKsat, VG_SuperAlpha,
                                        VG_SuperN))

\* Lines 156-175.
BuildSoilProperties ==
    /\ pc = "buildProps"
    /\ SoilPropertiesBuilt.ok
    /\ SuperCats' = TableSuperCats(SuperCats)
    /\ DfSoilSuperProperties' = SoilPropertiesBuilt.df
    /\ Goto("writeProps")
    /\ UNCHANGED <<env, runs, PathList, header, DfSubCats, frames, series,
                   VG_ThetaS_unique_dict, DfSuperCats, DfSuperDetails, outDir>>

\* Lines 156-175 when a column's length differs from the index: ValueError.
BuildSoilPropertiesValueError ==
    /\ pc = "buildProps"
    /\ ~SoilPropertiesBuilt.ok
    /\ SuperCats' = TableSuperCats(SuperCats)
    /\ DfSoilSuperProperties' = SoilPropertiesBuilt.df
    /\ Fail("ValueError")
    /\ UNCHANGED <<env, runs, PathList, header, DfSubCats, frames, series,
                   VG_ThetaS_unique_dict, DfSuperCats, DfSuperDetails, outDir>>

\* Lines 178-182.
WriteSoilProperties ==
    /\ pc = "writeProps"
    /\ outDir' = [outDir EXCEPT !.SoilPropertiesOut = TableToCsv(DfSoilSuperProperties)]
    /\ Goto("buildDetails")
    /\ UNCHANGED <<env, runs, PathList, header, DfSubCats, frames, series, reduced,
                   tables>>

\* Lines 188-194.
BuildSuperDetails ==
    /\ pc = "buildDetails"
    /\ DfSuperDetails' = AssignColumns(<<>>, SuperDetailsColumns(SuperCats)).df
    /\ Goto("writeDetails")
    /\ UNCHANGED <<env, runs, PathList, header, DfSubCats, frames, series, reduced,
                   DfSoilSuperProperties, outDir>>

\* Lines 198-202.
WriteSuperDetails ==
    /\ pc = "writeDetails"
    /\ outDir' = [outDir EXCEPT !.SoilDetailsOut = TableToCsv(DfSuperDetails)]
    /\ Goto("done")
    /\ UNCHANGED <<env, runs, PathList, header, DfSubCats, frames, series, reduced,
                   tables>>

Terminal == pc \in {"done", "failed"}

\* The script is started again on the same inputs, into a fresh output directory.
Rerun ==
    /\ Terminal
    /\ run = 1
    /\ run' = 2
    /\ first' = [pc |-> pc, outDir |-> outDir]
    /\ pc' = "glob" /\ error' = "none" /\ failedAt' = "none"
    /\ PathList' = <<>> /\ Nrows' = 0 /\ Ncols' = 0 /\ DfSubCats' = <<>>
    /\ DfVG_ThetaS' = <<>> /\ DfVG_ThetaR' = <<>> /\ DfVG_Ksat' = <<>>
    /\ DfVG_Alpha' = <<>> /\ DfVG_N' = <<>>
    /\ SubCats' = <<>> /\ VG_ThetaS' = <<>> /\ VG_ThetaR' = <<>> /\ VG_Ksat' = <<>>
    /\ VG_Alpha' = <<>> /\ VG_N' = <<>>
    /\ VG_ThetaS_unique_dict' = <<>> /\ SuperCats' = <<>> /\ DfSuperCats' = <<>>
    /\ DfSoilSuperProperties' = <<>> /\ DfSuperDetails' = <<>>
    /\ outDir' = EmptyDir
    /\ UNCHANGED env

Next ==
    \/ Glob
    \/ ReadHeader
    \/ ReadHeaderIndexError
    \/ BuildSubCats
    \/ ReadParams
    \/ ReadParamsIndexError
    \/ FlattenAll
    \/ Reduce
    \/ WriteSuperCats
    \/ BuildSoilProperties
    \/ BuildSoilPropertiesValueError
    \/ WriteSoilProperties
    \/ BuildSuperDetails
    \/ WriteSuperDetails
    \/ Rerun

Spec == Init /\ [][Next]_vars

\* ------------------------------------------------------------- claims
\* What the claims speak of, read off the input grids and the written files.
MapFile == outDir.SuperCatsOut
PropsFile == outDir.SoilPropertiesOut
DetailsFile == outDir.SoilDetailsOut

Written == { f \in DOMAIN outDir : outDir[f].written }

NumCells == Nrows * Ncols

\* The value of a 2D grid at flattened (row-major) position i, counted from 1.
CellOf(grid, i) == grid[((i - 1) \div Ncols) + 1][((i - 1) % Ncols) + 1]

\* The number of distinct values of a grid.
DistinctCount(grid) ==
    Cardinality({ grid[r][c] : r \in 1..Nrows, c \in 1..Ncols })

\* The first flattened position at which a grid holds value v.
FirstCell(grid, v) == Min({ i \in 1..NumCells : CellOf(grid, i) = v })

\* The column of a written table under a header name.
ColumnOf(file, name) ==
    LET j == CHOOSE j \in DOMAIN file.header : file.header[j] = name
    IN  [k \in DOMAIN file.rows |-> file.rows[k][j]]

\* The row of a written table whose SuperCats entry is k.
RowOf(file, k) ==
    LET ids == ColumnOf(file, "SuperCats")
    IN  file.rows[CHOOSE r \in DOMAIN ids : ids[r] = k]

MapBuilt == DfSuperCats # <<>>

FramesRead ==
    pc \in {"flatten", "reduce", "writeMap", "buildProps", "writeProps",
            "buildDetails", "writeDetails", "done"}
    \/ (pc = "failed" /\ failedAt = "buildProps")

\* C1: for every Supercategory ID k the Soil Properties row of k holds the five
\* parameter values of the first cell (row-major) the map assigns to k, for every
\* set of five equally-sized grids.  (Ksat is compared as read from the grid; its
\* unit conversion is C2.)
C1_RowIsFirstCellOfId ==
    PropsFile.written =>
        \A k \in Range(Flatten(MapFile.rows)) :
            LET i == FirstCell(MapFile.rows, k)
                row == RowOf(PropsFile, k)
            IN  <<row[4], row[5], row[6], row[7], row[8]>>
                    = <<CellOf(DfVG_ThetaS, i), CellOf(DfVG_ThetaR, i),
                        CellOf(DfVG_Ksat, i), CellOf(DfVG_Alpha, i),
                        CellOf(DfVG_N, i)>>

\* C2: the VG_Ksat value of every Soil Properties row is the converted value:
\* v * 0.01 for a grid value v other than -999, and -999 for -999.
C2_TableKsatConverted ==
    PropsFile.written =>
        LET ksat == ColumnOf(PropsFile, "VG_Ksat")
            converted == Unique(VG_Ksat)
        IN  /\ Len(ksat) = Len(converted)
            /\ \A k \in DOMAIN ksat : FracEq(Frac(ksat[k]), converted[k])

\* C3: in every terminal state either all three output files are written or none.
C3_AllOrNothing ==
    Terminal => (Written = {} \/ Written = DOMAIN outDir)

\* C4: Supercategory IDs follow the first appearance of each distinct thetaSat
\* value in row-major order: the IDs are exactly 0..K-1, the first cell of ID k+1
\* comes after the first cell of ID k, a cell's ID is the number of distinct
\* thetaSat values that appear before the first appearance of its own, and
\* thetaSat [[40,40],[50,40]] gives the map [[0,0],[1,0]].
C4_FirstAppearanceOrder ==
    MapBuilt =>
        LET K == DistinctCount(DfVG_ThetaS)
        IN  /\ { CellOf(DfSuperCats, i) : i \in 1..NumCells } = 0..(K - 1)
            /\ \A k \in 0..(K - 2) :
                   FirstCell(DfSuperCats, k) < FirstCell(DfSuperCats, k + 1)
            /\ \A i \in 1..NumCells :
                   CellOf(DfSuperCats, i) =
                       Cardinality({ CellOf(DfVG_ThetaS, j) :
                           j \in 1..(FirstCell(DfVG_ThetaS, CellOf(DfVG_ThetaS, i)) - 1) })
            /\ DfVG_ThetaS = << <<40, 40>>, <<50, 40>> >>
                   => DfSuperCats = << <<0, 0>>, <<1, 0>> >>

C4_Witness ==
    /\ DfVG_ThetaS = << <<40, 40>>, <<50, 40>> >>
    /\ MapFile.written
    /\ MapFile.rows = << <<0, 0>>, <<1, 0>> >>

\* C5: two cells get the same Supercategory ID iff their thetaSat values are
\* identical, whatever their other parameters; the number of IDs is the number
\* of distinct thetaSat values, and an all -999 grid has exactly one ID.
C5_SameIdIffSameThetaSat ==
    MapBuilt =>
        LET ids == { CellOf(DfSuperCats, i) : i \in 1..NumCells }
        IN  /\ \A i, j \in 1..NumCells :
                   (CellOf(DfSuperCats, i) = CellOf(DfSuperCats, j))
                       <=> (CellOf(DfVG_ThetaS, i) = CellOf(DfVG_ThetaS, j))
            /\ Cardinality(ids) = DistinctCount(DfVG_ThetaS)
            /\ (\A i \in 1..NumCells : CellOf(DfVG_ThetaS, i) = NoData)
                   => Cardinality(ids) = 1

C5_Witness ==
    /\ MapFile.written
    /\ \E i, j \in 1..NumCells :
          /\ CellOf(DfVG_ThetaS, i) = CellOf(DfVG_ThetaS, j)
          /\ CellOf(DfVG_ThetaR, i) # CellOf(DfVG_ThetaR, j)
          /\ CellOf(MapFile.rows, i) = CellOf(MapFile.rows, j)
    /\ \E i, j \in 1..NumCells :
          /\ CellOf(DfVG_ThetaS, i) = NoData
          /\ CellOf(MapFile.rows, i) # CellOf(MapFile.rows, j)

\* The SuperCats column of a written table lists every ID of the map exactly once.
ListsMapIdsOnce(file) ==
    LET mapIds == Range(Flatten(MapFile.rows))
        ids == ColumnOf(file, "SuperCats")
    IN  /\ Len(file.rows) = Cardinality(mapIds)
        /\ \A k \in mapIds : Cardinality({ r \in DOMAIN ids : ids[r] = k }) = 1

\* C6: in a run that writes its outputs, every ID of the map appears exactly once
\* in the SuperCats column of each table, and each table has as many rows as the
\* map has distinct values.
C6_IdsConsistent ==
    /\ PropsFile.written => MapFile.written /\ ListsMapIdsOnce(PropsFile)
    /\ DetailsFile.written => MapFile.written /\ ListsMapIdsOnce(DetailsFile)

C6_Witness ==
    /\ pc = "done"
    /\ Written = DOMAIN outDir
    /\ Cardinality(Range(Flatten(MapFile.rows))) = 3
    /\ NumCells = 4

\* C7: two runs on identical inputs (the same directory contents, resolution tag
\* and output names) end alike and with identical output files, the Grid
\* Locator's list being the same name order (index 0 thetaSat .. index 4 n) in both.
C7_Idempotent ==
    (run = 2 /\ Terminal) =>
        /\ pc = first.pc
        /\ outDir = first.outDir

C9_MapShape ==
    MapFile.written =>
        LET grid == asc[PathList[1]].data
            rows == MapFile.rows
        IN  /\ Len(rows) = Len(grid)
            /\ Len(rows) = asc[PathList[1]].Lines[2].nums[1]
            /\ \A r \in DOMAIN rows :
                  /\ Len(rows[r]) = Len(grid[r])
                  /\ Len(rows[r]) = asc[PathList[1]].Lines[1].nums[1]
                  /\ \A c \in DOMAIN rows[r] :
                        /\ rows[r][c] = VG_ThetaS_unique_dict[grid[r][c]]
                        /\ rows[r][c] =
                              VG_ThetaS_unique_dict[VG_ThetaS[(r - 1) * Len(rows[r]) + c]]

C9_Witness ==
    /\ MapFile.written
    /\ Nrows = 2 /\ Ncols = 2
    /\ MapFile.rows[1][2] # MapFile.rows[2][1]
    /\ MapFile.rows[1][1] # MapFile.rows[2][2]

CountsAgree ==
    \A grid \in {DfVG_ThetaR, DfVG_Ksat, DfVG_Alpha, DfVG_N} :
        DistinctCount(grid) = DistinctCount(DfVG_ThetaS)

\* C10: the two tables are written only when all five grids have as many distinct
\* values as thetaSat; otherwise the run stops while building the Soil Properties
\* table, after the map file is written and before either table file is.
C10_TablesNeedEqualCounts ==
    /\ (PropsFile.written \/ DetailsFile.written) => CountsAgree
    /\ (FramesRead /\ ~CountsAgree) =>
          /\ pc \in {"flatten", "reduce", "writeMap", "buildProps", "failed"}
          /\ pc = "failed" =>
                /\ error = "ValueError"
                /\ failedAt = "buildProps"
                /\ Written = {"SuperCatsOut"}

C10_Witness ==
    /\ pc = "failed"
    /\ failedAt = "buildProps"
    /\ DistinctCount(DfVG_Ksat) # DistinctCount(DfVG_ThetaS)
    /\ DistinctCount(DfVG_ThetaR) = DistinctCount(DfVG_ThetaS)
    /\ Written = {"SuperCatsOut"}

====
